---------------------------- MODULE Spec2Model ----------------------------
(***************************************************************************)
(* A model of gisim/agent.py: the greedy dice matcher                      *)
(* (AttackOnlyAgent.get_dice_idx_greedy), the multi-action cursor          *)
(* (MultipleActionAgent.take_action over GenericMultipleAction), the       *)
(* default round-end handlers and the attack-only play-cards handler       *)
(* (AttackOnlyAgent.take_action_on_play_cards).                            *)
(*                                                                         *)
(* Dice indices are the source's 0-based indices: die i of the Python list *)
(* is dice[i + 1] of the TLA+ sequence, and `used` is a function over      *)
(* 0 .. len(dice) - 1.                                                     *)
(***************************************************************************)
EXTENDS Integers, Sequences, FiniteSets, TLC

\* ------------------------------------------------------------------ bounds
MaxDice == 4
MaxVal == 3
MaxKeys == 2
MaxYield == 2
MaxHealth == 2
MaxPower == 2

\* ---------------------------------------------------------------- elements
\* ElementType members with 1 <= value <= 7 ("7 majors elements").
Majors == {"CRYO", "HYDRO", "PYRO", "ELECTRO", "GEO", "DENDRO", "ANEMO"}
OMNI == "OMNI"
ANY == "ANY"
SAME == "SAME"
POWER == "POWER"
NONE == "NONE"

\* Every value a held die can carry.
AllDice == Majors \cup {OMNI}

\* The die values, cost keys and character elements the inputs are drawn from.
DieTypes == {"CRYO", "PYRO", "HYDRO", OMNI}
CostKeys == {"CRYO", POWER, ANY, SAME}
CharElements == {"CRYO", "PYRO"}

DiceSeqs == UNION {[1..n -> DieTypes] : n \in 0..MaxDice}

Range(s) == {s[i] : i \in DOMAIN s}
Min(a, b) == IF a <= b THEN a ELSE b

\* dice[idx] of the source.
Die(d, idx) == d[idx + 1]

\* used = [False for _ in dice]
NoneUsed(d) == [i \in 0..(Len(d) - 1) |-> FALSE]

\* ------------------------------------------------------ the scanning loops
\* for idx, die in enumerate(dice): if used[idx]: continue;
\*   if idx not in dice_idx and <die in want>: remaining -= 1; append; mark;
\*   if remaining == 0: break
\* st = [used, dice_idx, remaining]; the loop from index idx on.
RECURSIVE ScanTake(_, _, _, _)
ScanTake(d, st, idx, want) ==
  IF idx >= Len(d) THEN st
  ELSE IF st.used[idx] THEN ScanTake(d, st, idx + 1, want)
  ELSE IF idx \notin Range(st.dice_idx) /\ Die(d, idx) \in want
       THEN LET st2 == [used |-> [st.used EXCEPT ![idx] = TRUE],
                        dice_idx |-> Append(st.dice_idx, idx),
                        remaining |-> st.remaining - 1]
            IN IF st2.remaining = 0 THEN st2
               ELSE ScanTake(d, st2, idx + 1, want)
       ELSE ScanTake(d, st, idx + 1, want)

\* A major-element key with the exact-match pass replaced by nothing: the
\* requirement is paid from OMNI dice first.
MajorKeyOmniFirst(d, used0, idx0, k, val) ==
  LET s1 == ScanTake(d, [used |-> used0, dice_idx |-> idx0, remaining |-> val],
                     0, {OMNI})
      s2 == IF s1.remaining > 0 THEN ScanTake(d, s1, 0, {k}) ELSE s1
  IN [used |-> s2.used, dice_idx |-> s2.dice_idx, ok |-> ~(s2.remaining > 0)]

\* key is one of the 7 major elements: exact matches, then OMNI, else fail.
MajorKey(d, used0, idx0, k, val) ==
  LET s1 == ScanTake(d, [used |-> used0, dice_idx |-> idx0, remaining |-> val],
                     0, {k})
      s2 == IF s1.remaining > 0 THEN ScanTake(d, s1, 0, {OMNI}) ELSE s1
  IN [used |-> s2.used, dice_idx |-> s2.dice_idx, ok |-> ~(s2.remaining > 0)]

\* The Any key scanning with a `used` and a `dice_idx` of its own, as if no
\* earlier key had taken a die.
AnyKeyReuse(d, used0, idx0, ce, val) ==
  LET s1 == ScanTake(d, [used |-> NoneUsed(d), dice_idx |-> <<>>,
                         remaining |-> val], 0, AllDice \ {ce})
      s2 == IF s1.remaining > 0 THEN ScanTake(d, s1, 0, {ce}) ELSE s1
      s3 == IF s2.remaining > 0 THEN ScanTake(d, s2, 0, {OMNI}) ELSE s2
  IN [used |-> [i \in DOMAIN used0 |-> used0[i] \/ s3.used[i]],
      dice_idx |-> idx0 \o s3.dice_idx, ok |-> ~(s3.remaining > 0)]

\* key == ElementType.ANY: die != char_element, then die == char_element,
\* then die == OMNI, else fail.
AnyKey(d, used0, idx0, ce, val) ==
  LET s1 == ScanTake(d, [used |-> used0, dice_idx |-> idx0, remaining |-> val],
                     0, AllDice \ {ce})
      s2 == IF s1.remaining > 0 THEN ScanTake(d, s1, 0, {ce}) ELSE s1
      s3 == IF s2.remaining > 0 THEN ScanTake(d, s2, 0, {OMNI}) ELSE s2
  IN [used |-> s3.used, dice_idx |-> s3.dice_idx, ok |-> ~(s3.remaining > 0)]

\* ------------------------------------------------------------ the Same key
\* [dice[idx] for idx, die_used in enumerate(used) if not die_used], from idx on.
RECURSIVE UnusedFrom(_, _, _)
UnusedFrom(d, used0, idx) ==
  IF idx >= Len(d) THEN <<>>
  ELSE IF used0[idx] THEN UnusedFrom(d, used0, idx + 1)
  ELSE <<Die(d, idx)>> \o UnusedFrom(d, used0, idx + 1)

\* A Counter is kept as its items() in insertion order: <<element, count>>.
HasKey(cnt, e) == \E i \in DOMAIN cnt : cnt[i][1] = e
CountOf(cnt, e) == LET i == CHOOSE i \in DOMAIN cnt : cnt[i][1] = e IN cnt[i][2]

\* Counter(lst): an element enters at its first occurrence.
RECURSIVE CounterInto(_, _)
CounterInto(lst, cnt) ==
  IF lst = <<>> THEN cnt
  ELSE LET e == Head(lst)
       IN CounterInto(Tail(lst),
            IF HasKey(cnt, e)
            THEN [i \in DOMAIN cnt |->
                    IF cnt[i][1] = e THEN <<e, cnt[i][2] + 1>> ELSE cnt[i]]
            ELSE Append(cnt, <<e, 1>>))

\* if e not in dice_counter.keys(): dice_counter[e] = 0
WithKey(cnt, e) == IF HasKey(cnt, e) THEN cnt ELSE Append(cnt, <<e, 0>>)

\* dice_counter after lines 278-284.
DiceCounter(d, used0, ce) ==
  WithKey(WithKey(CounterInto(UnusedFrom(d, used0, 0), <<>>), OMNI), ce)

\* sorted(items, key=count): stable, ascending.
RECURSIVE SortAsc(_)
SortAsc(items) ==
  IF items = <<>> THEN <<>>
  ELSE LET n == Len(items)
           init == SortAsc(SubSeq(items, 1, n - 1))
           x == items[n]
           k == Cardinality({i \in DOMAIN init : init[i][2] <= x[2]})
       IN SubSeq(init, 1, k) \o <<x>> \o SubSeq(init, k + 1, Len(init))

\* sorted(items, key=count, reverse=True): stable, descending.
RECURSIVE SortDesc(_)
SortDesc(items) ==
  IF items = <<>> THEN <<>>
  ELSE LET n == Len(items)
           init == SortDesc(SubSeq(items, 1, n - 1))
           x == items[n]
           k == Cardinality({i \in DOMAIN init : init[i][2] >= x[2]})
       IN SubSeq(init, 1, k) \o <<x>> \o SubSeq(init, k + 1, Len(init))

\* Lines 293-301: take the dice of `element` until remaining == 0.
RECURSIVE ScanSame1(_, _, _, _)
ScanSame1(d, st, idx, element) ==
  IF idx >= Len(d) THEN st
  ELSE IF st.used[idx] THEN ScanSame1(d, st, idx + 1, element)
  ELSE IF element = Die(d, idx)
       THEN LET st2 == [used |-> [st.used EXCEPT ![idx] = TRUE],
                        dice_idx |-> Append(st.dice_idx, idx),
                        remaining |-> st.remaining - 1]
            IN IF st2.remaining = 0 THEN st2
               ELSE ScanSame1(d, st2, idx + 1, element)
       ELSE ScanSame1(d, st, idx + 1, element)

\* Lines 289-303: the first element of sorted_counter, from item i on, that is
\* neither OMNI nor char_element and has cnt >= val.
RECURSIVE SameStep1(_, _, _, _, _, _)
SameStep1(d, st, sorted, i, ce, val) ==
  IF i > Len(sorted) THEN [st |-> st, satisfied |-> FALSE]
  ELSE IF sorted[i][1] \in {OMNI, ce} THEN SameStep1(d, st, sorted, i + 1, ce, val)
  ELSE IF sorted[i][2] >= val
       THEN [st |-> ScanSame1(d, st, 0, sorted[i][1]), satisfied |-> TRUE]
       ELSE SameStep1(d, st, sorted, i + 1, ce, val)

\* Lines 316-326: every unused die of `element` and, while omni_remaining > 0,
\* every unused OMNI die; no break.  st = [used, dice_idx, a, b] with a the
\* element's counter (other_remaining) and b omni_remaining.
RECURSIVE ScanSame2(_, _, _, _)
ScanSame2(d, st, idx, element) ==
  IF idx >= Len(d) THEN st
  ELSE IF st.used[idx] THEN ScanSame2(d, st, idx + 1, element)
  ELSE IF element = Die(d, idx)
       THEN ScanSame2(d, [used |-> [st.used EXCEPT ![idx] = TRUE],
                          dice_idx |-> Append(st.dice_idx, idx),
                          a |-> st.a - 1, b |-> st.b], idx + 1, element)
  ELSE IF st.b > 0 /\ Die(d, idx) = OMNI
       THEN ScanSame2(d, [used |-> [st.used EXCEPT ![idx] = TRUE],
                          dice_idx |-> Append(st.dice_idx, idx),
                          a |-> st.a, b |-> st.b - 1], idx + 1, element)
  ELSE ScanSame2(d, st, idx + 1, element)

\* Lines 310-330: the first item of the descending order that is neither OMNI
\* nor char_element is tried, and the loop is left after it whatever came of it.
RECURSIVE SameStep2(_, _, _, _, _, _, _)
SameStep2(d, st, sorted, i, ce, val, omni_count) ==
  IF i > Len(sorted) THEN [st |-> st, satisfied |-> FALSE]
  ELSE IF sorted[i][1] \in {OMNI, ce}
       THEN SameStep2(d, st, sorted, i + 1, ce, val, omni_count)
  ELSE IF omni_count + sorted[i][2] >= val
       THEN LET r == ScanSame2(d, [used |-> st.used, dice_idx |-> st.dice_idx,
                                   a |-> sorted[i][2], b |-> val - sorted[i][2]],
                               0, sorted[i][1])
            IN [st |-> [used |-> r.used, dice_idx |-> r.dice_idx,
                        remaining |-> st.remaining],
                satisfied |-> (r.a = 0 /\ r.b = 0)]
       ELSE [st |-> st, satisfied |-> FALSE]

\* Lines 337-350: the dice of char_element and, while omni_remaining > 0, OMNI
\* dice; after each unused die the two counters are tested and the loop left
\* when both are 0.  st = [used, dice_idx, a, b, satisfied].
RECURSIVE ScanSame3(_, _, _, _)
ScanSame3(d, st, idx, ce) ==
  IF idx >= Len(d) THEN st
  ELSE IF st.used[idx] THEN ScanSame3(d, st, idx + 1, ce)
  ELSE LET st2 ==
             IF ce = Die(d, idx)
             THEN [st EXCEPT !.used[idx] = TRUE,
                             !.dice_idx = Append(st.dice_idx, idx),
                             !.a = st.a - 1]
             ELSE IF st.b > 0 /\ Die(d, idx) = OMNI
             THEN [st EXCEPT !.used[idx] = TRUE,
                             !.dice_idx = Append(st.dice_idx, idx),
                             !.b = st.b - 1]
             ELSE st
       IN IF st2.a = 0 /\ st2.b = 0 THEN [st2 EXCEPT !.satisfied = TRUE]
          ELSE ScanSame3(d, st2, idx + 1, ce)

\* Lines 333-350.
SameStep3(d, st, dice_counter, ce, val, omni_count) ==
  LET char_elem_count == CountOf(dice_counter, ce)
  IN IF char_elem_count + omni_count >= val
     THEN LET r == ScanSame3(d, [used |-> st.used, dice_idx |-> st.dice_idx,
                                 a |-> Min(char_elem_count, val),
                                 b |-> val - Min(char_elem_count, val),
                                 satisfied |-> FALSE], 0, ce)
          IN [st |-> [used |-> r.used, dice_idx |-> r.dice_idx,
                      remaining |-> st.remaining],
              satisfied |-> r.satisfied]
     ELSE [st |-> st, satisfied |-> FALSE]

\* The Same key with step 2 trying the element of the ascending order (the
\* smallest group) instead of the descending one.
SameKeyAscStep2(d, used0, idx0, ce, val) ==
  LET dice_counter == DiceCounter(d, used0, ce)
      st0 == [used |-> used0, dice_idx |-> idx0, remaining |-> val]
      r1 == SameStep1(d, st0, SortAsc(dice_counter), 1, ce, val)
      omni_count == CountOf(dice_counter, OMNI)
      r2 == IF r1.satisfied THEN r1
            ELSE SameStep2(d, r1.st, SortAsc(dice_counter), 1, ce, val, omni_count)
      r3 == IF r2.satisfied THEN r2
            ELSE SameStep3(d, r2.st, dice_counter, ce, val, omni_count)
  IN [used |-> r3.st.used, dice_idx |-> r3.st.dice_idx, ok |-> r3.satisfied]

\* The Same key without step 1: a sufficient group goes through step 2, which
\* takes the whole group.
SameKeyNoStep1(d, used0, idx0, ce, val) ==
  LET dice_counter == DiceCounter(d, used0, ce)
      st0 == [used |-> used0, dice_idx |-> idx0, remaining |-> val]
      omni_count == CountOf(dice_counter, OMNI)
      r2 == SameStep2(d, st0, SortDesc(dice_counter), 1, ce, val, omni_count)
      r3 == IF r2.satisfied THEN r2
            ELSE SameStep3(d, r2.st, dice_counter, ce, val, omni_count)
  IN [used |-> r3.st.used, dice_idx |-> r3.st.dice_idx, ok |-> r3.satisfied]

\* key == ElementType.SAME, lines 277-352.
SameKey(d, used0, idx0, ce, val) ==
  LET dice_counter == DiceCounter(d, used0, ce)
      st0 == [used |-> used0, dice_idx |-> idx0, remaining |-> val]
      r1 == SameStep1(d, st0, SortAsc(dice_counter), 1, ce, val)
      omni_count == CountOf(SortAsc(dice_counter), OMNI)
      r2 == IF r1.satisfied THEN r1
            ELSE SameStep2(d, r1.st, SortDesc(dice_counter), 1, ce, val, omni_count)
      r3 == IF r2.satisfied THEN r2
            ELSE SameStep3(d, r2.st, dice_counter, ce, val, omni_count)
  IN [used |-> r3.st.used, dice_idx |-> r3.st.dice_idx, ok |-> r3.satisfied]

\* The branch on the key with POWER paid from the dice like an Any key.
ProcessKeyPowerPaid(d, used0, idx0, ce, k, val) ==
  IF k \in Majors THEN MajorKey(d, used0, idx0, k, val)
  ELSE IF k \in {ANY, POWER} THEN AnyKey(d, used0, idx0, ce, val)
  ELSE IF k = SAME THEN SameKey(d, used0, idx0, ce, val)
  ELSE [used |-> used0, dice_idx |-> idx0, ok |-> TRUE]

\* One iteration of `for key, val in cost.items()`: the branch on the key.  A
\* key of no branch (POWER) selects nothing and the loop goes on.
ProcessKey(d, used0, idx0, ce, k, val) ==
  IF k \in Majors THEN MajorKey(d, used0, idx0, k, val)
  ELSE IF k = ANY THEN AnyKey(d, used0, idx0, ce, val)
  ELSE IF k = SAME THEN SameKey(d, used0, idx0, ce, val)
  ELSE [used |-> used0, dice_idx |-> idx0, ok |-> TRUE]

\* ------------------------------------------------------ the matcher's state
VARIABLES
  dice,          \* the dice argument
  char_element,  \* the char_element argument
  cost,          \* the items of the cost dict iterated so far: key -> val
  key,           \* the loop variable `key` of the last iteration
  used,          \* the local `used`
  dice_idx,      \* the local `dice_idx`
  pc,            \* "loop": in the for loop; "returned": the call has returned
  result         \* the returned list

mvars == <<dice, char_element, cost, key, used, dice_idx, pc, result>>

\* No entry of the dict: a function with the empty domain.
EmptyDict == [k \in {} |-> 0]
Put(c, k, v) == [x \in (DOMAIN c) \cup {k} |-> IF x = k THEN v ELSE c[x]]

\* A call get_dice_idx_greedy(dice, cost, char_element), at the loop's head.
MatcherInit ==
  /\ dice \in DiceSeqs
  /\ char_element \in CharElements
  /\ cost = EmptyDict
  /\ key = NONE
  /\ used = NoneUsed(dice)
  /\ dice_idx = <<>>
  /\ pc = "loop"
  /\ result = <<>>

\* The loop takes the next item of cost (a dict: its keys are distinct, each
\* count at least 1), and returns [] when the key cannot be paid.
KeyStep ==
  /\ pc = "loop"
  /\ Cardinality(DOMAIN cost) < MaxKeys
  /\ \E k \in CostKeys \ DOMAIN cost, val \in 1..MaxVal :
       \E r \in {ProcessKey(dice, used, dice_idx, char_element, k, val)} :
          /\ cost' = Put(cost, k, val)
          /\ key' = k
          /\ used' = r.used
          /\ dice_idx' = r.dice_idx
          /\ pc' = IF r.ok THEN "loop" ELSE "returned"
          /\ result' = <<>>
  /\ UNCHANGED <<dice, char_element>>

\* cost.items() is exhausted: return dice_idx.
Return ==
  /\ pc = "loop"
  /\ pc' = "returned"
  /\ result' = dice_idx
  /\ UNCHANGED <<dice, char_element, cost, key, used, dice_idx>>

\* ------------------------------------------------------------ the snapshot
Statuses == {"INITIALIZING", "RUNNING", "TERMINATED"}
Phases == {"CHANGE_CARD", "SELECT_ACTIVE_CHARACTER", "ROLL_DICE", "PLAY_CARDS",
           "ROUND_END"}

\* CharPos(k) for the slot index k, and CharPos.MIDDLE.
Slots == {0, 1, 2}
CharPosOf(k) == <<"CharPos(0)", "CharPos(1)", "CharPos(2)">>[k + 1]
MIDDLE == "CharPos.MIDDLE"

\* The player info a handler reads: the active slot, each slot's health_point
\* and alive flag, the dice zone and the active character's element.
PlayerView(ap, h, al, dz, ce) ==
  [active_pos |-> ap, health |-> h, alive |-> al, dice_zone |-> dz,
   char_element |-> ce]

\* ------------------------------------------------------------- the actions
ChangeCardsAction(ci) == [type |-> "ChangeCards", cards_idx |-> ci]
ChangeCharacterAction(pos, di) ==
  [type |-> "ChangeCharacter", position |-> pos, dice_idx |-> di]
RollDiceAction(di) == [type |-> "RollDice", dice_idx |-> di]
DeclareEndAction == [type |-> "DeclareEnd"]
IndexError == [type |-> "IndexError"]

\* [CharPos(k) for k, character in enumerate(characters) if character.alive]
RECURSIVE AlivePositionsFrom(_, _)
AlivePositionsFrom(view, k) ==
  IF k \notin DOMAIN view.alive THEN <<>>
  ELSE (IF view.alive[k] THEN <<CharPosOf(k)>> ELSE <<>>)
       \o AlivePositionsFrom(view, k + 1)

\* The round-end default with the last alive slot taken instead of the first.
RoundEndLastAlive(view) ==
  IF view.health[view.active_pos] <= 0
  THEN LET alive_positions == AlivePositionsFrom(view, 0)
       IN IF alive_positions = <<>> THEN IndexError
          ELSE ChangeCharacterAction(alive_positions[Len(alive_positions)], <<>>)
  ELSE DeclareEndAction

\* SimpleAgent.take_action_on_round_end.  alive_positions[0] of an empty list
\* raises IndexError.
TakeActionOnRoundEnd(view) ==
  IF view.health[view.active_pos] <= 0
  THEN LET alive_positions == AlivePositionsFrom(view, 0)
       IN IF alive_positions = <<>> THEN IndexError
          ELSE ChangeCharacterAction(alive_positions[1], <<>>)
  ELSE DeclareEndAction

\* GenericMultipleAction.yield_actions_on_round_end: the items the generator
\* yields.
YieldActionsOnRoundEnd(view) ==
  IF view.health[view.active_pos] <= 0
  THEN LET alive_positions == AlivePositionsFrom(view, 0)
       IN IF alive_positions = <<>> THEN <<IndexError>>
          ELSE <<ChangeCharacterAction(alive_positions[1], <<>>)>>
  ELSE <<DeclareEndAction>>

\* The indices k of current_dice with element_type not in
\* [character_element, OMNI], from k on.
RECURSIVE RerollFrom(_, _)
RerollFrom(view, k) ==
  IF k >= Len(view.dice_zone) THEN <<>>
  ELSE (IF Die(view.dice_zone, k) \notin {view.char_element, OMNI}
        THEN <<k>> ELSE <<>>) \o RerollFrom(view, k + 1)

YieldActionsOnInitChangeCard(view) == <<ChangeCardsAction(<<>>)>>
YieldActionsOnInitSelectCharacter(view) == <<ChangeCharacterAction(MIDDLE, <<>>)>>
YieldActionsOnRollDice(view) == <<RollDiceAction(RerollFrom(view, 0))>>

\* yield_actions_on_play_cards is left to the concrete policy.  What the
\* policy yields is a function of the snapshot; the snapshot's `plan` stands
\* for the value of that function on it: any sequence of at most MaxYield of
\* these actions, the empty one included.
PlayActions == {[type |-> "UseCard"], [type |-> "UseSkill"]}
PlayPlans == UNION {[1..n -> PlayActions] : n \in 0..MaxYield}
YieldActionsOnPlayCards(gi) == gi.plan

\* GenericMultipleAction.take_multiple_actions: the items the generator
\* yields for game_info, in order.
TakeMultipleActions(gi) ==
  IF gi.status = "INITIALIZING" /\ gi.phase = "CHANGE_CARD"
  THEN YieldActionsOnInitChangeCard(gi.view)
  ELSE IF gi.status = "INITIALIZING" /\ gi.phase = "SELECT_ACTIVE_CHARACTER"
  THEN YieldActionsOnInitSelectCharacter(gi.view)
  ELSE IF gi.status = "RUNNING" /\ gi.phase = "ROLL_DICE"
  THEN YieldActionsOnRollDice(gi.view)
  ELSE IF gi.status = "RUNNING" /\ gi.phase = "PLAY_CARDS"
  THEN YieldActionsOnPlayCards(gi)
  ELSE IF gi.status = "RUNNING" /\ gi.phase = "ROUND_END"
  THEN YieldActionsOnRoundEnd(gi.view)
  ELSE <<DeclareEndAction>>

\* ------------------------------------------------- the multi-action cursor
NoActionAssigned == [type |-> "NoActionAssigned"]
NoCall == [type |-> "NoCall"]

\* _current_iter is <<>> for None, else <<g>> with g the generator: the items
\* it yields, how many of them next() has produced, and the game_info it was
\* created with.
Generator(items, pos, gi) == [items |-> items, pos |-> pos, gi |-> gi]

\* next(self._current_iter) would return an item (no StopIteration).
HasNext(cur) == cur # <<>> /\ cur[1].pos < Len(cur[1].items)

\* take_action that starts a new sequence on every call.
TakeActionAlwaysRestart(cur, gi, fresh) ==
  [iter |-> <<Generator(fresh, Min(1, Len(fresh)), gi)>>,
   ret |-> IF fresh = <<>> THEN NoActionAssigned ELSE fresh[1]]

\* take_action that keeps the exhausted generator when the new one is empty.
TakeActionKeepOnEmpty(cur, gi, fresh) ==
  IF HasNext(cur)
  THEN [iter |-> <<[cur[1] EXCEPT !.pos = @ + 1]>>,
        ret |-> cur[1].items[cur[1].pos + 1]]
  ELSE IF fresh = <<>> /\ cur # <<>>
  THEN [iter |-> cur, ret |-> cur[1].items[Len(cur[1].items)]]
  ELSE [iter |-> <<Generator(fresh, Min(1, Len(fresh)), gi)>>,
        ret |-> IF fresh = <<>> THEN NoActionAssigned ELSE fresh[1]]

\* MultipleActionAgent.take_action(game_info): the next item of the started
\* sequence, else a new sequence (yielding `fresh`) for game_info and its
\* first item, else NoActionAssigned.
TakeActionOutcome(cur, gi, fresh) ==
  IF HasNext(cur)
  THEN [iter |-> <<[cur[1] EXCEPT !.pos = @ + 1]>>,
        ret |-> cur[1].items[cur[1].pos + 1]]
  ELSE [iter |-> <<Generator(fresh, Min(1, Len(fresh)), gi)>>,
        ret |-> IF fresh = <<>> THEN NoActionAssigned ELSE fresh[1]]

VARIABLES
  current_iter,  \* self._current_iter
  game_info,     \* the argument of the last take_action call
  ret,           \* what the last take_action call returned or raised
  delivered      \* the items returned so far from the sequence in current_iter

avars == <<current_iter, game_info, ret, delivered>>

\* The player views the engine hands to the multi-action agent: a healthy
\* active character, and a defeated one with two other slots alive.
AgentViews ==
  { PlayerView(0, [k \in Slots |-> 1], [k \in Slots |-> TRUE],
               <<"PYRO", OMNI, "CRYO">>, "CRYO"),
    PlayerView(0, [k \in Slots |-> IF k = 0 THEN 0 ELSE 1],
               [k \in Slots |-> k # 0], <<>>, "CRYO") }

\* The snapshots of the decision points; the plan matters in PLAY_CARDS only.
GameInfos ==
  { gi \in [status : Statuses, phase : Phases, view : AgentViews,
            plan : PlayPlans] :
      (gi.status = "RUNNING" /\ gi.phase = "PLAY_CARDS") \/ gi.plan = <<>> }

\* After MultipleActionAgent.__init__.
AgentInit ==
  /\ current_iter = <<>>
  /\ game_info = <<>>
  /\ ret = NoCall
  /\ delivered = <<>>

\* The engine calls take_action with the snapshot of the decision point.
TakeAction ==
  \E gi \in GameInfos :
    LET r == TakeActionOutcome(current_iter, gi, TakeMultipleActions(gi))
    IN /\ current_iter' = r.iter
       /\ game_info' = gi
       /\ ret' = r.ret
       /\ delivered' = IF r.ret = NoActionAssigned THEN <<>>
                       ELSE IF HasNext(current_iter)
                       THEN Append(delivered, r.ret)
                       ELSE <<r.ret>>

\* -------------------------------------------------- the round-end handlers
VARIABLES
  re_view,   \* the player info of the snapshot
  re_pc,     \* "call", or the handler that has run: "simple", "generic"
  re_out     \* the action returned, or the actions yielded, in order

rvars == <<re_view, re_pc, re_out>>

RoundEndViews ==
  { PlayerView(ap, h, al, <<>>, "CRYO") :
      ap \in Slots, h \in [Slots -> 0..MaxHealth], al \in [Slots -> BOOLEAN] }

RoundEndInit ==
  /\ re_view \in RoundEndViews
  /\ re_pc = "call"
  /\ re_out = <<>>

\* SimpleAgent.take_action_on_round_end(game_info).
SimpleRoundEnd ==
  /\ re_pc = "call"
  /\ re_pc' = "simple"
  /\ re_out' = <<TakeActionOnRoundEnd(re_view)>>
  /\ UNCHANGED re_view

\* list(GenericMultipleAction.yield_actions_on_round_end(game_info)).
GenericRoundEnd ==
  /\ re_pc = "call"
  /\ re_pc' = "generic"
  /\ re_out' = YieldActionsOnRoundEnd(re_view)
  /\ UNCHANGED re_view

\* ------------------------------------- AttackOnlyAgent: the play-cards handler
\* get_dice_idx_greedy(dice, cost, char_element) as a function: the loop over
\* cost.items() from item i on.  A key that cannot be paid returns []; the end
\* of the loop returns dice_idx.  items is the dict in insertion order, a
\* sequence of <<key, val>>.
\* A value computed once is bound as the element of a one-element set and
\* read back with Only.
Only(S) == CHOOSE x \in S : TRUE

RECURSIVE GreedyFrom(_, _, _, _, _, _)
GreedyFrom(d, items, i, used0, idx0, ce) ==
  IF i > Len(items) THEN idx0
  ELSE Only({ IF r.ok THEN GreedyFrom(d, items, i + 1, r.used, r.dice_idx, ce)
              ELSE <<>> :
              r \in {ProcessKey(d, used0, idx0, ce, items[i][1], items[i][2])} })

GetDiceIdxGreedy(d, items, ce) == GreedyFrom(d, items, 1, NoneUsed(d), <<>>, ce)

\* The three hand cards the handler looks for, with the cost it passes for each
\* and the entity type of the card's target.
KantenSenmyouBlessing == "Kanten Senmyou Blessing"
TravelersHandySword == "Traveler's Handy Sword"
SacrificialSword == "Sacrificial Sword"
ComboCards ==
  << [name |-> KantenSenmyouBlessing, cost |-> << <<"CRYO", 2>> >>,
      entity |-> "CHARACTER"],
     [name |-> TravelersHandySword, cost |-> << <<SAME, 2>> >>,
      entity |-> "WEAPON"],
     [name |-> SacrificialSword, cost |-> << <<SAME, 3>> >>,
      entity |-> "WEAPON"] >>

\* hand_cards.index(name): the 0-based index of the first occurrence.
IndexOf(hand, name) ==
  (CHOOSE i \in DOMAIN hand :
     hand[i] = name /\ \A j \in 1..(i - 1) : hand[j] # name) - 1

UseCardAction(ci, target, di, pos) ==
  [type |-> "UseCard", card_idx |-> ci, card_target |-> target,
   dice_idx |-> di, card_user_pos |-> pos]
UseSkillAction(pos, name, di, targets) ==
  [type |-> "UseSkill", user_position |-> pos, skill_name |-> name,
   dice_idx |-> di, skill_targets |-> targets]

\* costs[ElementType.POWER] of a cost dict that has the key.
PowerOf(items) ==
  LET i == CHOOSE i \in DOMAIN items : items[i][1] = POWER IN items[i][2]

\* One `if "<card>" in player_info.hand_cards:` block.  st holds the locals
\* dice_idx and skill_name and, once a return statement has run, the returned
\* action in `returned`.
CardBlock(view, st, card) ==
  IF st.returned # <<>> \/ card.name \notin Range(view.hand_cards) THEN st
  ELSE Only({ IF Len(di) > 0
              THEN [st EXCEPT !.dice_idx = di,
                              !.returned =
                                 <<UseCardAction(
                                     IndexOf(view.hand_cards, card.name),
                                     << <<"player_id", card.entity,
                                          view.active_pos>> >>,
                                     di, CharPosOf(view.active_pos))>>]
              ELSE [st EXCEPT !.dice_idx = di] :
              di \in {GetDiceIdxGreedy(view.dice_zone, card.cost,
                                       view.char_element)} })

\* The burst block with the power test relaxed to "at least the cost".
BurstBlockPowerAtLeast(view, st) ==
  IF st.returned # <<>> THEN st
  ELSE IF view.power >= PowerOf(view.burst.costs)
  THEN Only({ [st EXCEPT !.dice_idx = di,
                         !.skill_name = IF Len(di) > 0 THEN view.burst.name
                                        ELSE @] :
              di \in {GetDiceIdxGreedy(view.dice_zone, view.burst.costs,
                                       view.char_element)} })
  ELSE st

\* if character.power == elemental_burst.costs[POWER]: dice_idx = matcher(...);
\*   if len(dice_idx) > 0: skill_name = elemental_burst.name
BurstBlock(view, st) ==
  IF st.returned # <<>> THEN st
  ELSE IF view.power = PowerOf(view.burst.costs)
  THEN Only({ [st EXCEPT !.dice_idx = di,
                         !.skill_name = IF Len(di) > 0 THEN view.burst.name
                                        ELSE @] :
              di \in {GetDiceIdxGreedy(view.dice_zone, view.burst.costs,
                                       view.char_element)} })
  ELSE st

\* if not dice_idx: dice_idx = matcher(current_dice, skill.costs, element);
\*   if len(dice_idx) > 0: skill_name = skill.name
\* for the elemental skill and then for the normal attack.
SkillBlock(view, st, skill) ==
  IF st.returned # <<>> \/ st.dice_idx # <<>> THEN st
  ELSE Only({ [st EXCEPT !.dice_idx = di,
                         !.skill_name = IF Len(di) > 0 THEN skill.name ELSE @] :
              di \in {GetDiceIdxGreedy(view.dice_zone, skill.costs,
                                       view.char_element)} })

\* The end of the handler: the action a card block returned, or DeclareEnd for
\* an empty dice_idx, or the UseSkill action.
PlayCardsReturn(view, st) ==
  IF st.returned # <<>> THEN st.returned[1]
  ELSE IF st.dice_idx = <<>> THEN DeclareEndAction
  ELSE UseSkillAction(CharPosOf(view.active_pos), st.skill_name, st.dice_idx,
                      << <<"~player_id", CharPosOf(view.opponent_active)>> >>)

\* AttackOnlyAgent.take_action_on_play_cards(game_info): for a standing active
\* character the blocks run in the order of the source, each on the locals
\* the block before it left.
TakeActionOnPlayCards(view) ==
  IF view.health[view.active_pos] <= 0
  THEN LET alive_positions == AlivePositionsFrom(view, 0)
       IN IF alive_positions = <<>> THEN IndexError
          ELSE ChangeCharacterAction(alive_positions[1], <<>>)
  ELSE Only(
    { PlayCardsReturn(view, s6) : s6 \in
    { SkillBlock(view, s5, view.normal) : s5 \in
    { SkillBlock(view, s4, view.skill) : s4 \in
    { BurstBlock(view, s3) : s3 \in
    { CardBlock(view, s2, ComboCards[3]) : s2 \in
    { CardBlock(view, s1, ComboCards[2]) : s1 \in
    { CardBlock(view, s0, ComboCards[1]) : s0 \in
    { [dice_idx |-> <<>>, skill_name |-> "", returned |-> <<>>] } } } } } } } })

\* ------------------------------------------------ the play-cards snapshots
VARIABLES
  pa_view,   \* what the handler reads of game_info
  pa_pc,     \* "call", or "returned" once the handler has run
  pa_out     \* the action returned

pvars == <<pa_view, pa_pc, pa_out>>

\* The dice zones of the play-cards snapshots.
PlayDieTypes == {"CRYO", "PYRO", OMNI}
PlayDice == UNION {[1..n -> PlayDieTypes] : n \in 0..MaxDice}

\* Hands with none, one and all three of the cards looked for.
PlayHands ==
  { <<>>,
    <<KantenSenmyouBlessing>>,
    <<"Paimon", TravelersHandySword>>,
    <<SacrificialSword, TravelersHandySword, KantenSenmyouBlessing>> }

\* The character slots (active slot, health_point and alive flag per slot)
\* and the opponent's active slot: two with the active character standing,
\* two with it defeated, one of these with no slot alive.
Shift(f) == [k \in 0..(Len(f) - 1) |-> f[k + 1]]
Characters(ap, h, al, opp) ==
  [active_pos |-> ap, health |-> Shift(h), alive |-> Shift(al),
   opponent_active |-> opp]
StandingCharacters ==
  { Characters(0, <<2, 1, 0>>, <<TRUE, TRUE, FALSE>>, 2),
    Characters(1, <<0, 1, 2>>, <<FALSE, TRUE, TRUE>>, 0) }
DefeatedCharacters ==
  { Characters(1, <<2, 0, 1>>, <<TRUE, FALSE, TRUE>>, 1),
    Characters(2, <<0, 0, 0>>, <<FALSE, FALSE, FALSE>>, 0) }

\* The skills of a character card of element ce, as get_character_card gives
\* them: a normal attack paid with one die of the element and two of any, an
\* elemental skill paid with s dice of the element, an elemental burst paid
\* with b dice of the element and p power.
NormalAttack(ce) ==
  [name |-> "NORMAL_ATTACK", costs |-> << <<ce, 1>>, <<ANY, 2>> >>]
ElementalSkill(ce, s) ==
  [name |-> "ELEMENTAL_SKILL", costs |-> << <<ce, s>> >>]
ElementalBurst(ce, b, p) ==
  [name |-> "ELEMENTAL_BURST", costs |-> << <<ce, b>>, <<POWER, p>> >>]

PlayView(c, dz, ce, pw, hand, s, b, p) ==
  [active_pos |-> c.active_pos, health |-> c.health, alive |-> c.alive,
   opponent_active |-> c.opponent_active, dice_zone |-> dz,
   char_element |-> ce, power |-> pw, hand_cards |-> hand,
   normal |-> NormalAttack(ce), skill |-> ElementalSkill(ce, s),
   burst |-> ElementalBurst(ce, b, p)]

\* Every standing snapshot within the bounds, and the defeated ones on every
\* hand.
PlayInit ==
  /\ \/ \E c \in StandingCharacters, dz \in PlayDice, ce \in CharElements,
           pw \in 0..MaxPower, hand \in PlayHands,
           s \in (MaxVal - 1)..MaxVal, b \in MaxVal..(MaxVal + 1),
           p \in (MaxPower - 1)..MaxPower :
          pa_view = PlayView(c, dz, ce, pw, hand, s, b, p)
     \/ \E c \in DefeatedCharacters, hand \in PlayHands :
          pa_view = PlayView(c, <<"CRYO", OMNI>>, "CRYO", MaxPower, hand,
                             MaxVal, MaxVal, MaxPower)
  /\ pa_pc = "call"
  /\ pa_out = <<>>

\* AttackOnlyAgent.take_action_on_play_cards(game_info).
PlayCards ==
  /\ pa_pc = "call"
  /\ pa_pc' = "returned"
  /\ pa_out' = TakeActionOnPlayCards(pa_view)
  /\ UNCHANGED pa_view

\* --------------------------------------------------------- specifications
vars == <<mvars, avars, rvars, pvars>>

MatcherIdle ==
  /\ dice = <<>> /\ char_element = NONE /\ cost = <<>> /\ key = NONE
  /\ used = <<>>
  /\ dice_idx = <<>> /\ pc = "idle" /\ result = <<>>
AgentIdle ==
  /\ current_iter = <<>> /\ game_info = <<>> /\ ret = NoCall /\ delivered = <<>>
RoundEndIdle ==
  /\ re_view = <<>> /\ re_pc = "idle" /\ re_out = <<>>
PlayIdle ==
  /\ pa_view = <<>> /\ pa_pc = "idle" /\ pa_out = <<>>

\* The matcher: one call of get_dice_idx_greedy on any input within the bounds.
Init == MatcherInit /\ AgentIdle /\ RoundEndIdle /\ PlayIdle
Next ==
  \/ KeyStep /\ UNCHANGED <<avars, rvars, pvars>>
  \/ Return /\ UNCHANGED <<avars, rvars, pvars>>
Spec == Init /\ [][Next]_vars

\* The multi-action agent under an engine that may hand it any snapshot.
AgentSpecInit == AgentInit /\ MatcherIdle /\ RoundEndIdle /\ PlayIdle
AgentNext == TakeAction /\ UNCHANGED <<mvars, rvars, pvars>>
AgentSpec == AgentSpecInit /\ [][AgentNext]_vars

\* The two round-end handlers on any player view within the bounds.
RoundEndSpecInit == RoundEndInit /\ MatcherIdle /\ AgentIdle /\ PlayIdle
RoundEndNext ==
  \/ SimpleRoundEnd /\ UNCHANGED <<mvars, avars, pvars>>
  \/ GenericRoundEnd /\ UNCHANGED <<mvars, avars, pvars>>
RoundEndSpec == RoundEndSpecInit /\ [][RoundEndNext]_vars

\* The attack-only agent's play-cards handler on any snapshot within the
\* bounds.
PlaySpecInit == PlayInit /\ MatcherIdle /\ AgentIdle /\ RoundEndIdle
PlayNext == PlayCards /\ UNCHANGED <<mvars, avars, rvars>>
PlaySpec == PlaySpecInit /\ [][PlayNext]_vars

\* ------------------------------------------------- properties: the matcher
Indices(d) == 0..(Len(d) - 1)

\* The unused dice of d carrying an element of S.
UnusedOf(d, u, S) == {i \in Indices(d) : ~u[i] /\ Die(d, i) \in S}

\* The elements a Same group may be made of.
NonSpecial(ce) == AllDice \ {OMNI, ce}

RECURSIVE SumOver(_, _)
SumOver(c, S) ==
  IF S = {} THEN 0
  ELSE LET x == CHOOSE x \in S : TRUE IN c[x] + SumOver(c, S \ {x})

\* The step is an iteration of the loop for the key k.
StepOfKey(k) == pc = "loop" /\ DOMAIN cost' # DOMAIN cost /\ key' = k

\* The indices the step appended to dice_idx.
Picked == {dice_idx'[i] : i \in (Len(dice_idx) + 1)..Len(dice_idx')}
Extends == /\ Len(dice_idx') >= Len(dice_idx)
           /\ SubSeq(dice_idx', 1, Len(dice_idx)) = dice_idx

\* C1: the returned list holds only indices in [0, len(dice)) and no index
\* twice, whatever keys the cost spec has.
C1_IndicesInRangeDistinct ==
  pc = "returned" =>
    /\ \A i \in DOMAIN result : result[i] \in Indices(dice)
    /\ \A i, j \in DOMAIN result : i # j => result[i] # result[j]

\* A call has returned dice chosen for a major-element key and an Any key
\* where the Any key could have matched the die the major key took.
C1_Witness ==
  /\ pc = "returned"
  /\ DOMAIN cost = {"CRYO", ANY}
  /\ Len(result) = cost["CRYO"] + cost[ANY]
  /\ Len(result) >= 3
  /\ char_element = "PYRO"

\* C2: a non-empty returned list is as long as the sum of the required counts
\* of the keys other than POWER (all counts are at least 1).
C2_LengthIsSumOfCounts ==
  (pc = "returned" /\ result # <<>>) =>
    Len(result) = SumOver(cost, DOMAIN cost \ {POWER})

\* A call with a POWER key and a dice-paid key has returned a selection.
C2_Witness ==
  /\ pc = "returned"
  /\ POWER \in DOMAIN cost
  /\ Cardinality(DOMAIN cost) = 2
  /\ cost[POWER] >= 2
  /\ result # <<>>

\* C6, per key: a major-element key with requirement n takes min(n, e) unused
\* dice of its element and n - min(n, e) unused OMNI dice, and the call fails
\* at the key exactly when e + u < n.
C6_MajorStep ==
  StepOfKey("CRYO") =>
    LET n == cost'["CRYO"]
        e == Cardinality(UnusedOf(dice, used, {"CRYO"}))
        u == Cardinality(UnusedOf(dice, used, {OMNI}))
    IN /\ (pc' = "returned") <=> (e + u < n)
       /\ pc' = "loop" =>
            /\ Extends
            /\ Len(dice_idx') = Len(dice_idx) + n
            /\ Picked \subseteq UnusedOf(dice, used, {"CRYO", OMNI})
            /\ Cardinality(Picked \cap UnusedOf(dice, used, {"CRYO"})) = Min(n, e)
            /\ Cardinality(Picked \cap UnusedOf(dice, used, {OMNI})) = n - Min(n, e)

\* C6, whole call: when the cost spec has only major-element keys and the dice
\* hold enough of each key's element, the call succeeds with exactly the
\* required number of dice of each element and no OMNI die.
C6_ExactCover ==
  (/\ pc = "returned"
   /\ DOMAIN cost # {}
   /\ DOMAIN cost \subseteq Majors
   /\ \A k \in DOMAIN cost :
        Cardinality({i \in Indices(dice) : Die(dice, i) = k}) >= cost[k])
  => /\ \A i \in DOMAIN result : Die(dice, result[i]) # OMNI
     /\ \A k \in DOMAIN cost :
          Cardinality({i \in DOMAIN result : Die(dice, result[i]) = k}) = cost[k]

\* C6: both of the above.
C6_MajorKey == [](C6_ExactCover) /\ [][C6_MajorStep]_vars

\* A major-element key was paid partly with dice of its element and partly
\* with OMNI dice, after another key had taken dice.
C6_Witness ==
  /\ pc = "loop"
  /\ key = "CRYO"
  /\ Cardinality(DOMAIN cost) = 2
  /\ \E i, j \in DOMAIN dice_idx :
       /\ i < j
       /\ Die(dice, dice_idx[i]) = "CRYO"
       /\ Die(dice, dice_idx[j]) = OMNI
       /\ j > Len(dice_idx) - cost["CRYO"]
       /\ i > Len(dice_idx) - cost["CRYO"]

\* C7: an Any key takes dice that are neither the character's element nor
\* OMNI first, the character's element next and OMNI dice last: an
\* own-element die only when the unaligned dice are fewer than n, an OMNI die
\* only when unaligned and own-element dice together are fewer than n; it
\* fails only when all unused dice are fewer than n.
C7_AnyStep ==
  StepOfKey(ANY) =>
    LET n == cost'[ANY]
        unaligned == UnusedOf(dice, used, NonSpecial(char_element))
        own == UnusedOf(dice, used, {char_element})
        omni == UnusedOf(dice, used, {OMNI})
    IN /\ (Picked \cap own # {}) => Cardinality(unaligned) < n
       /\ (Picked \cap omni # {}) => Cardinality(unaligned) + Cardinality(own) < n
       /\ (pc' = "returned") =>
            Cardinality(unaligned) + Cardinality(own) + Cardinality(omni) < n
C7_AnyPreference == [][C7_AnyStep]_vars

\* The least n members of the set S of indices, or S when it has fewer.
FirstN(S, n) == {i \in S : Cardinality({j \in S : j < i}) < n}

\* C8: a Same key with requirement N, when some element other than OMNI and
\* the character's element has at least N unused dice, takes exactly the
\* first N unused dice of one such element, in sequence order, and nothing
\* else.
C8_SameStep ==
  (/\ StepOfKey(SAME)
   /\ \E el \in NonSpecial(char_element) :
        Cardinality(UnusedOf(dice, used, {el})) >= cost'[SAME])
  => LET N == cost'[SAME]
     IN /\ pc' = "loop"
        /\ Extends
        /\ Len(dice_idx') = Len(dice_idx) + N
        /\ \A i, j \in (Len(dice_idx) + 1)..Len(dice_idx') :
             i < j => dice_idx'[i] < dice_idx'[j]
        /\ \E el \in NonSpecial(char_element) :
             /\ Cardinality(UnusedOf(dice, used, {el})) >= N
             /\ Picked = FirstN(UnusedOf(dice, used, {el}), N)
C8_SameSufficientGroup == [][C8_SameStep]_vars

\* dice [Pyro, Pyro, Universal, Hydro], character Cryo, cost {Same: 2}: the
\* call returned the indices 0 and 1.
C8_Witness ==
  /\ pc = "returned"
  /\ dice = <<"PYRO", "PYRO", OMNI, "HYDRO">>
  /\ char_element = "CRYO"
  /\ DOMAIN cost = {SAME}
  /\ cost[SAME] = 2
  /\ result = <<0, 1>>

\* C10: a Same key with requirement N, when no element other than OMNI and
\* the character's element has N unused dice but one that occurs among the
\* unused dice has N together with the unused OMNI dice, is satisfied with
\* all unused dice of one such element and OMNI dice for the rest, N dice in
\* all, and with no die of the character's element.
C10_SameStep ==
  (/\ StepOfKey(SAME)
   /\ \A el \in NonSpecial(char_element) :
        Cardinality(UnusedOf(dice, used, {el})) < cost'[SAME]
   /\ \E el \in NonSpecial(char_element) :
        /\ UnusedOf(dice, used, {el}) # {}
        /\ Cardinality(UnusedOf(dice, used, {el, OMNI})) >= cost'[SAME])
  => LET N == cost'[SAME]
         omni == UnusedOf(dice, used, {OMNI})
     IN /\ pc' = "loop"
        /\ Extends
        /\ Len(dice_idx') = Len(dice_idx) + N
        /\ \E el \in NonSpecial(char_element) :
             LET group == UnusedOf(dice, used, {el})
             IN /\ group # {}
                /\ Cardinality(group) + Cardinality(omni) >= N
                /\ Picked = group \cup FirstN(omni, N - Cardinality(group))
C3_Delivered ==
  current_iter # <<>> =>
    LET g == current_iter[1]
    IN /\ delivered = SubSeq(g.items, 1, g.pos)
       /\ g.pos >= 1 => ret = g.items[g.pos]

\* C3, step: a call returns the next item of the started sequence while one
\* is left; once the sequence is exhausted the call starts the sequence of
\* the snapshot passed to it and returns that sequence's first item.
C3_Step ==
  IF HasNext(current_iter)
  THEN /\ ret' = current_iter[1].items[current_iter[1].pos + 1]
       /\ current_iter' = <<[current_iter[1] EXCEPT !.pos = @ + 1]>>
  ELSE LET fresh == TakeMultipleActions(game_info')
       IN /\ current_iter' = <<Generator(fresh, Min(1, Len(fresh)), game_info')>>
          /\ fresh # <<>> => ret' = fresh[1]
C3_Sequencing == [](C3_Delivered) /\ [][C3_Step]_vars

\* A sequence of two different actions has been returned in full, a1 then a2.
C3_Witness ==
  /\ current_iter # <<>>
  /\ Len(current_iter[1].items) = 2
  /\ current_iter[1].pos = 2
  /\ current_iter[1].items[1] # current_iter[1].items[2]
  /\ delivered = current_iter[1].items
  /\ ret = current_iter[1].items[2]

\* C4: an action a call returns comes from a sequence started from a snapshot
\* with the same (status, phase) as the snapshot of the call.
C4_NoActionAcrossPhases ==
  (ret # NoCall /\ ret # NoActionAssigned) =>
    /\ current_iter[1].gi.status = game_info.status
    /\ current_iter[1].gi.phase = game_info.phase

\* C5: a call ends in NoActionAssigned exactly when no item of a started
\* sequence is left and the sequence of the call's snapshot yields nothing;
\* the call after a failure starts the sequence of its own snapshot and
\* returns its first item, if it has one.
C5_Step ==
  LET fresh == TakeMultipleActions(game_info')
  IN /\ (ret' = NoActionAssigned) <=> (~HasNext(current_iter) /\ fresh = <<>>)
     /\ ret = NoActionAssigned =>
          /\ current_iter' = <<Generator(fresh, Min(1, Len(fresh)), game_info')>>
          /\ ret' = IF fresh = <<>> THEN NoActionAssigned ELSE fresh[1]
C5_NoActionAssigned == [][C5_Step]_vars

\* A call has failed with NoActionAssigned on a policy that yields nothing.
C5_Witness ==
  /\ ret = NoActionAssigned
  /\ game_info.phase = "PLAY_CARDS"
  /\ current_iter # <<>>
  /\ current_iter[1].items = <<>>

\* ------------------------------------ properties: the round-end handlers
\* C9: with at least one alive slot, either handler produces exactly one
\* action: ChangeCharacter to the lowest alive slot with no dice when the
\* active character's health is <= 0, DeclareEnd when it is > 0.
C9_RoundEndDefault ==
  (re_pc \in {"simple", "generic"} /\ \E k \in Slots : re_view.alive[k]) =>
    /\ Len(re_out) = 1
    /\ re_out[1] =
         IF re_view.health[re_view.active_pos] <= 0
         THEN LET k == CHOOSE k \in Slots :
                         /\ re_view.alive[k]
                         /\ \A j \in Slots : re_view.alive[j] => k <= j
              IN [type |-> "ChangeCharacter", position |-> CharPosOf(k),
                  dice_idx |-> <<>>]
         ELSE [type |-> "DeclareEnd"]

\* The generator was run for a defeated active character in slot 0 with the
\* slots 1 and 2 alive, and yielded the switch to slot 1.
C9_Witness ==
  /\ re_pc = "generic"
  /\ re_view.active_pos = 0
  /\ re_view.health[0] = 0
  /\ ~re_view.alive[0] /\ re_view.alive[1] /\ re_view.alive[2]
  /\ re_out = <<[type |-> "ChangeCharacter", position |-> CharPosOf(1),
                 dice_idx |-> <<>>]>>

\* ----------------------------------- properties: the play-cards handler
\* The matcher's result for a cost on the snapshot's dice; it succeeds when
\* the result is not empty.
MatcherOn(view, costs) ==
  GetDiceIdxGreedy(view.dice_zone, costs, view.char_element)

\* No combo card usable: every card looked for that is in the hand has a cost
\* the matcher fails on.
NoComboCardUsable(view) ==
  \A i \in DOMAIN ComboCards :
    ComboCards[i].name \in Range(view.hand_cards) =>
      MatcherOn(view, ComboCards[i].cost) = <<>>

\* C11: for a non-defeated active character with no combo card usable, the
\* handler returns UseSkill of the elemental burst exactly when the
\* character's power equals the burst's Power cost and the matcher succeeds
\* on the burst's cost; otherwise UseSkill of the elemental skill if the
\* matcher succeeds on its cost; otherwise UseSkill of the normal attack if
\* the matcher succeeds on its cost; otherwise DeclareEnd.  The dice indices
\* of the UseSkill action are the matcher's result for the chosen skill's
\* cost.
C11_SkillPriority ==
  (/\ pa_pc = "returned"
   /\ pa_view.health[pa_view.active_pos] > 0
   /\ NoComboCardUsable(pa_view)) =>
    LET B == MatcherOn(pa_view, pa_view.burst.costs)
        S == MatcherOn(pa_view, pa_view.skill.costs)
        N == MatcherOn(pa_view, pa_view.normal.costs)
        chosen ==
          IF pa_view.power = PowerOf(pa_view.burst.costs) /\ B # <<>>
          THEN <<pa_view.burst.name, B>>
          ELSE IF S # <<>> THEN <<pa_view.skill.name, S>>
          ELSE IF N # <<>> THEN <<pa_view.normal.name, N>>
          ELSE <<>>
    IN IF chosen = <<>> THEN pa_out = [type |-> "DeclareEnd"]
       ELSE /\ pa_out.type = "UseSkill"
            /\ pa_out.skill_name = chosen[1]
            /\ pa_out.dice_idx = chosen[2]

\* A Pyro character with power equal to the burst's Power cost holds the
\* talent card and the dice [PYRO, PYRO, CRYO, PYRO]: the card's cost and the
\* burst's four Pyro dice both fail, and the elemental skill is used with
\* the three Pyro dice.
C11_Witness ==
  /\ pa_pc = "returned"
  /\ pa_view.health[pa_view.active_pos] > 0
  /\ pa_view.char_element = "PYRO"
  /\ pa_view.hand_cards = <<KantenSenmyouBlessing>>
  /\ pa_view.dice_zone = <<"PYRO", "PYRO", "CRYO", "PYRO">>
  /\ pa_view.power = PowerOf(pa_view.burst.costs)
  /\ pa_view.burst.costs[1][2] = 4
  /\ pa_view.skill.costs[1][2] = 3
  /\ pa_out.type = "UseSkill"
  /\ pa_out.skill_name = "ELEMENTAL_SKILL"
  /\ pa_out.dice_idx = <<0, 1, 3>>

=============================================================================
